---- MODULE Spec2Model ----
(***************************************************************************)
(* Model of github.com/alpstable/coinbase: the authenticating round        *)
(* tripper (newRoundTripper / newRoundTrip) and NewClient, which installs  *)
(* it on the process-wide http.DefaultClient.                              *)
(*                                                                         *)
(* Strings and byte slices are sequences of one-character strings, so that *)
(* concatenation, emptiness and decimal formatting are computed and not    *)
(* assumed.  HMAC-SHA256 and hex encoding are modelled as an ideal         *)
(* (collision free) keyed hash: a record of the key and the message.       *)
(***************************************************************************)
EXTENDS Integers, Sequences, FiniteSets, TLC

VARIABLES
    transport,  \* http.DefaultClient.Transport, the process-wide transport
    newRet,     \* what the latest NewClient call was given and returned
    req,        \* the *http.Request objects built by callers
    call,       \* per request object: the frame of newRoundTrip running on it
    clock,      \* the wall clock, whole seconds since the Unix epoch
    clients,    \* the credentials each *Client NewClient returned was made with
    op          \* per request object: the frame of the Client method using it

vars == <<transport, newRet, req, call, clock, clients, op>>

----------------------------------------------------------------------------
(* Bounds and input sets                                                   *)

\* The clock starts one second before 1700000000, so that a tick carries
\* through every digit, and is advanced at most MaxTicks times.
StartClock == 1700000000 - 1
MaxTicks == 1
\* How many times one request object is passed through the wrapper.
MaxPasses == 2

\* The request objects of the callers (distinct *http.Request pointers).
ReqIds == {"r1", "r2"}

\* The (key, secret) pairs NewClient is called with: each way of leaving one
\* empty, and two valid pairs that differ in both.
Credentials ==
    { <<"", "">>, <<"key1", "">>, <<"", "secret1">>,
      <<"key1", "secret1">>, <<"key2", "secret2">> }
ValidCredentials == {c \in Credentials : c[1] # "" /\ c[2] # ""}

Methods == {"GET", "POST"}
Paths == {"/api/v3/brokerage/accounts"}
RawQueries == {"", "limit=10"}

----------------------------------------------------------------------------
(* Request bodies: io.ReadCloser streams                                   *)

\* req.Body == nil
NilBody == [nil |-> TRUE, data |-> "", err |-> FALSE]

\* A stream that still yields the bytes data and then ends with io.EOF
\* (err = FALSE) or with a read error (err = TRUE).
Stream(data, err) == [nil |-> FALSE, data |-> data, err |-> err]

Bodies ==
    { NilBody,
      Stream("", FALSE),
      Stream("{order}", FALSE),
      Stream("{ord", TRUE) }

\* io.ReadAll: the bytes the stream yields up to its end, and whether the
\* read ended in an error.
ReadAll(b) == [data |-> b.data, err |-> b.err]

\* The stream after it has been read to its end.
Drained(b) == [b EXCEPT !.data = ""]

\* io.NopCloser(bytes.NewBuffer(body))
NopCloserBuffer(body) == Stream(body, FALSE)

----------------------------------------------------------------------------
(* Strings, errors, headers, hashing                                       *)

Digit(d) ==
    CASE d = 0 -> "0" [] d = 1 -> "1" [] d = 2 -> "2" [] d = 3 -> "3"
      [] d = 4 -> "4" [] d = 5 -> "5" [] d = 6 -> "6" [] d = 7 -> "7"
      [] d = 8 -> "8" [] d = 9 -> "9"

\* strconv.FormatInt(n, 10) for n >= 0: the decimal digits, most
\* significant first, no leading zero.
RECURSIVE FormatInt(_)
FormatInt(n) ==
    IF n < 10 THEN Digit(n)
    ELSE FormatInt(n \div 10) \o Digit(n % 10)

\* strings.Join(elems, sep)
RECURSIVE Join(_, _)
Join(elems, sep) ==
    IF Len(elems) = 0 THEN ""
    ELSE IF Len(elems) = 1 THEN elems[1]
    ELSE elems[1] \o sep \o Join(Tail(elems), sep)

\* An error value is the chain of its messages, outermost first; the nil
\* error is the empty chain.
NoErr == <<>>
errInvalidRoundTripArgs == <<"invalid auth arguments">>

\* fmt.Errorf(context + ": %w", err)
Wrap(context, err) == <<context>> \o err

\* errors.Is(err, target): target is err or one of the errors it wraps.
ErrorsIs(err, target) ==
    \E i \in 1..Len(err) : SubSeq(err, i, Len(err)) = target

\* hmac.New(sha256.New, key), Write(msg), Sum(nil): an ideal keyed hash.
HMACSHA256(key, msg) == [key |-> key, msg |-> msg]

\* hex.EncodeToString
HexEncode(digest) == [hex |-> digest]

HeaderNames ==
    {"Cb-Access-Key", "Cb-Access-Sign", "Cb-Access-Timestamp", "Content-Type"}

AuthHeaderNames == {"Cb-Access-Key", "Cb-Access-Sign", "Cb-Access-Timestamp"}

\* textproto.CanonicalMIMEHeaderKey, on the names this package uses.
CanonicalMIMEHeaderKey(name) ==
    CASE name = "cb-access-key" -> "Cb-Access-Key"
      [] name = "cb-access-sign" -> "Cb-Access-Sign"
      [] name = "cb-access-timestamp" -> "Cb-Access-Timestamp"
      [] OTHER -> name

\* HeaderAdd with the meaning of http.Header.Set: the value replaces the
\* values of the key.
HeaderAdd_Set(h, name, value) ==
    [h EXCEPT ![CanonicalMIMEHeaderKey(name)] = <<value>>]

\* http.Header.Add: append the value to the values of the canonical key.
HeaderAdd(h, name, value) ==
    [h EXCEPT ![CanonicalMIMEHeaderKey(name)] = Append(@, value)]

EmptyHeader == [n \in HeaderNames |-> <<>>]

\* The header of a request as CreateOrder builds it.
JSONHeader == [EmptyHeader EXCEPT !["Content-Type"] = <<"application/json">>]

\* A request whose caller has set the three auth headers already.
PresetHeader ==
    [JSONHeader EXCEPT
        !["Cb-Access-Key"] = <<"key0">>,
        !["Cb-Access-Sign"] = <<HexEncode(HMACSHA256("secret0", ""))>>,
        !["Cb-Access-Timestamp"] = <<"1">>]

InitHeaders == {JSONHeader, PresetHeader}

----------------------------------------------------------------------------
(* The round tripper                                                       *)

\* A *roundTripper: nil, or the closure over key and secret.
NilRoundTripper == [nil |-> TRUE, key |-> "", secret |-> ""]

\* newRoundTripper with the secret left unchecked.
newRoundTripper_KeyOnly(key, secret) ==
    IF key = ""
        THEN [rt |-> NilRoundTripper, err |-> errInvalidRoundTripArgs]
        ELSE [rt |-> [nil |-> FALSE, key |-> key, secret |-> secret],
              err |-> NoErr]

\* newRoundTripper(key, secret)
newRoundTripper(key, secret) ==
    IF key = "" \/ secret = ""
        THEN [rt |-> NilRoundTripper, err |-> errInvalidRoundTripArgs]
        ELSE [rt |-> [nil |-> FALSE, key |-> key, secret |-> secret],
              err |-> NoErr]

\* http.DefaultClient.Transport before anything is assigned: a nil
\* interface value.
NoTransport == [set |-> FALSE, rt |-> NilRoundTripper]

\* RequestPath with the "?" appended whether or not there is a query.
RequestPath_AlwaysMark(path, rawQuery) == path \o "?" \o rawQuery

\* The path that is signed.
RequestPath(path, rawQuery) ==
    IF rawQuery # "" THEN path \o "?" \o rawQuery ELSE path

\* The slice that is joined into the message.
MessageParts(unix, method, rpath, body) == <<unix, method, rpath, body>>

\* Message with the parts joined by a separator.
Message_Separated(parts) == Join(parts, "\n")

\* msg := strings.Join([]string{unix, req.Method, rpath, string(body)}, "")
Message(parts) == Join(parts, "")

\* hex.EncodeToString of the HMAC of msg under the secret.
Signature(secret, msg) == HexEncode(HMACSHA256(secret, msg))

\* AddAuthHeaders with the key and the timestamp interchanged.
AddAuthHeaders_Swapped(h, key, sig, unix) ==
    HeaderAdd(HeaderAdd(HeaderAdd(h, "cb-access-key", unix),
                        "cb-access-sign", sig),
              "cb-access-timestamp", key)

\* The three req.Header.Add calls.
AddAuthHeaders(h, key, sig, unix) ==
    HeaderAdd(HeaderAdd(HeaderAdd(h, "cb-access-key", key),
                        "cb-access-sign", sig),
              "cb-access-timestamp", unix)

\* WrapTransportError formatting the cause with %v: the chain is lost.
WrapTransportError_NoChain(err) == <<"error making request">>

\* The error newRoundTrip returns when the transport failed.
WrapTransportError(err) == Wrap("error making request", err)

----------------------------------------------------------------------------
(* State                                                                   *)

NoReq ==
    [made |-> FALSE, Method |-> "", Path |-> "", RawQuery |-> "",
     Header |-> EmptyHeader, Body |-> NilBody]

\* A *http.Response: nil, or a response with a status code.
NoRsp == [nil |-> TRUE, StatusCode |-> 0]
OKResponse == [nil |-> FALSE, StatusCode |-> 200]
Responses == {OKResponse, [nil |-> FALSE, StatusCode |-> 401]}
TransportErrors == {<<"dial tcp: timeout">>}

\* What the underlying transport was handed.
NoSent ==
    [Method |-> "", Path |-> "", RawQuery |-> "",
     Header |-> EmptyHeader, bodyNil |-> TRUE, body |-> ""]

\* The frame of newRoundTrip(req, key, secret).  entry, now, reads and
\* calls are history: what the request held on entry, the clock value that
\* was read, how often the clock was read and how often the underlying
\* transport was called.
IdleCall ==
    [pc |-> "idle", passes |-> 0,
     key |-> "", secret |-> "",
     entry |-> NoSent,
     body |-> "", rpath |-> "", unix |-> "",
     now |-> 0, reads |-> 0,
     parts |-> <<>>, msg |-> "",
     sig |-> HexEncode(HMACSHA256("", "")),
     sent |-> NoSent, calls |-> 0,
     rsp |-> NoRsp, err |-> NoErr,
     retRsp |-> NoRsp, retErr |-> NoErr]

\* What a transport handed the request would see.
Snapshot(rq) ==
    [Method |-> rq.Method, Path |-> rq.Path, RawQuery |-> rq.RawQuery,
     Header |-> rq.Header, bodyNil |-> rq.Body.nil,
     body |-> ReadAll(rq.Body).data]

----------------------------------------------------------------------------
(* The Client methods: requests, responses, JSON decoding                  *)

\* const api, without scheme and host: the path part of the URL.
api == "/api/v3"

\* url.JoinPath(base, elems...), on clean elements
JoinPath(base, elems) == base \o "/" \o Join(elems, "/")

\* json.Marshal(orderReq): some non-empty JSON text.
MarshalOrderRequest == "{order}"

ErrStatusNotOK == <<"status not OK">>
ioEOF == <<"EOF">>
ioErrUnexpectedEOF == <<"unexpected EOF">>
SyntaxError == <<"json: invalid character">>
UnmarshalTypeError == <<"json: cannot unmarshal">>

\* A response body is the JSON text it carries, as the tokens the decoder's
\* scanner sees (white space dropped).
Tok(kind, s, n) == [kind |-> kind, s |-> s, n |-> n]
LBrace == Tok("{", "", 0)
RBrace == Tok("}", "", 0)
Colon == Tok(":", "", 0)
Comma == Tok(",", "", 0)
Str(s) == Tok("string", s, 0)
Num(n) == Tok("number", "", n)

ValueKinds == {"string", "number", "true", "false", "null"}

\* The Go value a JSON scalar decodes to, and the kind of field it fits.
TokValue(t) ==
    CASE t.kind = "string" -> t.s
      [] t.kind = "number" -> t.n
      [] t.kind = "true" -> TRUE
      [] OTHER -> FALSE
TokType(t) ==
    CASE t.kind = "string" -> "string"
      [] t.kind = "number" -> "number"
      [] t.kind \in {"true", "false"} -> "bool"
      [] OTHER -> "null"

\* The scalar fields of Accounts and of Order with their json names, and the
\* zero values &Accounts{} and &Order{} hold.
AccountsFields ==
    [has_next |-> "bool", cursor |-> "string", size |-> "number"]
ZeroAccounts == [has_next |-> FALSE, cursor |-> "", size |-> 0]
OrderFields ==
    [success |-> "bool", failure_reason |-> "string", order_id |-> "string"]
ZeroOrder == [success |-> FALSE, failure_reason |-> "", order_id |-> ""]

\* The members of a JSON object from token i on: a member whose name is a
\* field and whose value fits is stored, null and unknown names are
\* skipped, a value of another type is remembered as the type error that is
\* returned at the end; a malformed or cut text is an error at once.
RECURSIVE DecodeMembers(_, _, _, _, _)
DecodeMembers(toks, i, val, types, terr) ==
    IF i + 3 > Len(toks) THEN [val |-> val, err |-> ioErrUnexpectedEOF]
    ELSE IF \/ toks[i].kind # "string"
            \/ toks[i + 1].kind # ":"
            \/ toks[i + 2].kind \notin ValueKinds
         THEN [val |-> val, err |-> SyntaxError]
    ELSE
      LET name == toks[i].s
          v == toks[i + 2]
          known == name \in DOMAIN types
          fits == known /\ TokType(v) = types[name]
          val2 == IF fits THEN [val EXCEPT ![name] = TokValue(v)] ELSE val
          terr2 == IF known /\ ~fits /\ v.kind # "null" /\ terr = NoErr
                      THEN UnmarshalTypeError ELSE terr
      IN  IF toks[i + 3].kind = "}" THEN [val |-> val2, err |-> terr2]
          ELSE IF toks[i + 3].kind = "," THEN
                  DecodeMembers(toks, i + 4, val2, types, terr2)
          ELSE [val |-> val, err |-> SyntaxError]

\* json.NewDecoder(body).Decode(&zero): the first JSON value of the text.
Decode(toks, zero, types) ==
    IF Len(toks) = 0 THEN [val |-> zero, err |-> ioEOF]
    ELSE IF toks[1].kind = "{" THEN
            IF Len(toks) < 2 THEN [val |-> zero, err |-> ioErrUnexpectedEOF]
            ELSE IF toks[2].kind = "}" THEN [val |-> zero, err |-> NoErr]
            ELSE DecodeMembers(toks, 2, zero, types, NoErr)
    ELSE IF toks[1].kind = "null" THEN [val |-> zero, err |-> NoErr]
    ELSE IF toks[1].kind \in ValueKinds THEN
            [val |-> zero, err |-> UnmarshalTypeError]
    ELSE [val |-> zero, err |-> SyntaxError]

EmptyText == <<>>
EmptyObject == <<LBrace, RBrace>>
\* {"size": 1, "cursor": "789100", "has_next": true, "success": true,
\*  "order_id": "o1", "extra": null}
TypedObject ==
    <<LBrace, Str("size"), Colon, Num(1), Comma,
      Str("cursor"), Colon, Str("789100"), Comma,
      Str("has_next"), Colon, Tok("true", "", 0), Comma,
      Str("success"), Colon, Tok("true", "", 0), Comma,
      Str("order_id"), Colon, Str("o1"), Comma,
      Str("extra"), Colon, Tok("null", "", 0), RBrace>>
\* {"size": "1", "success": "yes"}
MistypedObject ==
    <<LBrace, Str("size"), Colon, Str("1"), Comma,
      Str("success"), Colon, Str("yes"), RBrace>>
\* {"size": 1
CutObject == <<LBrace, Str("size"), Colon, Num(1)>>
\* <html>
NotJSON == <<Tok("<", "", 0)>>

ResponseTexts ==
    {EmptyText, EmptyObject, TypedObject, MistypedObject, CutObject, NotJSON}
JSONObjects == {EmptyObject, TypedObject, MistypedObject}

\* A response of the Coinbase API: a status code and a body, whose Close
\* returns nil or an error.
APIResponses ==
    { [nil |-> FALSE, StatusCode |-> st, Body |-> b, closeErr |-> ce] :
         st \in {200, 401}, b \in ResponseTexts, ce \in BOOLEAN }

\* What a Client method returns: a result (nil, or the decoded value) and
\* an error.
NilResult == [nil |-> TRUE, val |-> <<>>]
Result(val) == [nil |-> FALSE, val |-> val]

\* http.Client.Do returns a transport's error as a *url.Error around it.
URLError(err) == Wrap("url.Error", err)

NoClient == [key |-> "", secret |-> ""]

\* The frame of Client.Accounts or Client.CreateOrder.  client, decodes and
\* closed are history: the credentials the Client was made with, how often
\* the body was decoded and whether resp.Body.Close was called.
NoOp ==
    [pc |-> "none", kind |-> "", client |-> NoClient, resp |-> NoRsp,
     decodes |-> 0, closed |-> FALSE, result |-> NilResult, err |-> NoErr]

\* A nil *roundTripper was dereferenced, or the deferred Close failed: the
\* process has panicked.
Panicked ==
    \E r \in ReqIds : call[r].pc = "panic" \/ op[r].pc = "panic"

Init ==
    /\ transport = NoTransport
    /\ newRet = [called |-> FALSE, key |-> "", secret |-> "",
                 client |-> FALSE, err |-> NoErr]
    /\ req = [r \in ReqIds |-> NoReq]
    /\ call = [r \in ReqIds |-> IdleCall]
    /\ clock = StartClock
    /\ clients = {}
    /\ op = [r \in ReqIds |-> NoOp]

----------------------------------------------------------------------------
(* Actions                                                                 *)

\* time passes
Tick ==
    /\ ~Panicked
    /\ clock < StartClock + MaxTicks
    /\ clock' = clock + 1
    /\ UNCHANGED <<transport, newRet, req, call, clients, op>>

\* NewClient(key, secret): the result of newRoundTripper is assigned to
\* http.DefaultClient.Transport before the error is looked at.
NewClient(key, secret) ==
    LET r == newRoundTripper(key, secret) IN
    /\ ~Panicked
    /\ transport' = [set |-> TRUE, rt |-> r.rt]
    /\ newRet' =
         IF r.err # NoErr
            THEN [called |-> TRUE, key |-> key, secret |-> secret,
                  client |-> FALSE,
                  err |-> Wrap("failed to create client", r.err)]
            ELSE [called |-> TRUE, key |-> key, secret |-> secret,
                  client |-> TRUE, err |-> NoErr]
    /\ clients' = IF r.err # NoErr THEN clients
                  ELSE clients \cup {[key |-> key, secret |-> secret]}
    /\ UNCHANGED <<req, call, clock, op>>

\* A caller builds a request (http.NewRequestWithContext and header sets).
NewRequest(r, method, path, rawQuery, header, body) ==
    /\ ~Panicked
    /\ ~req[r].made
    /\ req' = [req EXCEPT ![r] =
                 [made |-> TRUE, Method |-> method, Path |-> path,
                  RawQuery |-> rawQuery, Header |-> header, Body |-> body]]
    /\ UNCHANGED <<transport, newRet, call, clock, clients, op>>

\* roundTripper.RoundTrip(req), called by the http client with the
\* transport installed at that moment: the closure calls newRoundTrip with
\* the key and secret it captured.  On a nil *roundTripper the field access
\* panics.
RoundTrip(r) ==
    /\ ~Panicked
    /\ req[r].made
    /\ call[r].pc \in {"idle", "done"}
    /\ call[r].passes < MaxPasses
    /\ transport.set
    /\ call' = [call EXCEPT ![r] =
          IF transport.rt.nil
             THEN [IdleCall EXCEPT !.pc = "panic", !.passes = call[r].passes]
             ELSE [IdleCall EXCEPT
                     !.pc = "body",
                     !.passes = call[r].passes + 1,
                     !.key = transport.rt.key,
                     !.secret = transport.rt.secret,
                     !.entry = Snapshot(req[r])]]
    /\ UNCHANGED <<transport, newRet, req, clock, clients, op>>

\* BufferBody that reads the body and does not put it back.
BufferBody_NoRestore(r) ==
    /\ ~Panicked
    /\ call[r].pc = "body"
    /\ IF ~req[r].Body.nil
          THEN /\ call' = [call EXCEPT ![r].body = ReadAll(req[r].Body).data,
                                       ![r].pc = "path"]
               /\ req' = [req EXCEPT ![r].Body = Drained(@)]
          ELSE /\ call' = [call EXCEPT ![r].pc = "path"]
               /\ UNCHANGED req
    /\ UNCHANGED <<transport, newRet, clock, clients, op>>

\* BufferBody without the nil check: an absent body becomes an empty buffer.
BufferBody_NoNilCheck(r) ==
    /\ ~Panicked
    /\ call[r].pc = "body"
    /\ call' = [call EXCEPT ![r].body = ReadAll(req[r].Body).data,
                            ![r].pc = "path"]
    /\ req' = [req EXCEPT ![r].Body =
                 NopCloserBuffer(ReadAll(req[r].Body).data)]
    /\ UNCHANGED <<transport, newRet, clock, clients, op>>

\* if req.Body != nil { body, _ = io.ReadAll(req.Body);
\*                      req.Body = io.NopCloser(bytes.NewBuffer(body)) }
BufferBody(r) ==
    /\ ~Panicked
    /\ call[r].pc = "body"
    /\ IF ~req[r].Body.nil
          THEN /\ call' = [call EXCEPT ![r].body = ReadAll(req[r].Body).data,
                                       ![r].pc = "path"]
               /\ req' = [req EXCEPT ![r].Body =
                            NopCloserBuffer(ReadAll(req[r].Body).data)]
          ELSE /\ call' = [call EXCEPT ![r].pc = "path"]
               /\ UNCHANGED req
    /\ UNCHANGED <<transport, newRet, clock, clients, op>>

\* rpath := req.URL.Path, with "?" and the raw query when there is one
Rpath(r) ==
    /\ ~Panicked
    /\ call[r].pc = "path"
    /\ call' = [call EXCEPT
                  ![r].rpath = RequestPath(req[r].Path, req[r].RawQuery),
                  ![r].pc = "time"]
    /\ UNCHANGED <<transport, newRet, req, clock, clients, op>>

\* unix := strconv.FormatInt(time.Now().Unix(), 10)
Unix(r) ==
    /\ ~Panicked
    /\ call[r].pc = "time"
    /\ call' = [call EXCEPT
                  ![r].now = clock,
                  ![r].reads = @ + 1,
                  ![r].unix = FormatInt(clock),
                  ![r].pc = "sign"]
    /\ UNCHANGED <<transport, newRet, req, clock, clients, op>>

\* Sign with the body kept in a buffer shared by all sends: the buffer holds
\* what the latest BufferBody of any send put there.
Sign_SharedBody(r) ==
    LET other == CHOOSE q \in ReqIds : q # r
        shared == IF call[other].pc \in {"path", "time", "sign", "headers"}
                     THEN call[other].body ELSE call[r].body
        parts == MessageParts(call[r].unix, req[r].Method, call[r].rpath,
                              shared)
    IN
    /\ ~Panicked
    /\ call[r].pc = "sign"
    /\ call' = [call EXCEPT
                  ![r].parts = parts,
                  ![r].msg = Message(parts),
                  ![r].sig = Signature(call[r].secret, Message(parts)),
                  ![r].pc = "headers"]
    /\ UNCHANGED <<transport, newRet, req, clock, clients, op>>

\* msg := strings.Join(...); signature.Write(msg); sig := hex(Sum(nil))
Sign(r) ==
    LET parts == MessageParts(call[r].unix, req[r].Method, call[r].rpath,
                              call[r].body)
    IN
    /\ ~Panicked
    /\ call[r].pc = "sign"
    /\ call' = [call EXCEPT
                  ![r].parts = parts,
                  ![r].msg = Message(parts),
                  ![r].sig = Signature(call[r].secret, Message(parts)),
                  ![r].pc = "headers"]
    /\ UNCHANGED <<transport, newRet, req, clock, clients, op>>

\* AddHeaders that reads the clock again for the timestamp header.
AddHeaders_ClockAgain(r) ==
    /\ ~Panicked
    /\ call[r].pc = "headers"
    /\ req' = [req EXCEPT ![r].Header =
                 AddAuthHeaders(@, call[r].key, call[r].sig,
                                FormatInt(clock))]
    /\ call' = [call EXCEPT ![r].reads = @ + 1, ![r].pc = "transport"]
    /\ UNCHANGED <<transport, newRet, clock, clients, op>>

\* req.Header.Add of the key, the signature and the timestamp
AddHeaders(r) ==
    /\ ~Panicked
    /\ call[r].pc = "headers"
    /\ req' = [req EXCEPT ![r].Header =
                 AddAuthHeaders(@, call[r].key, call[r].sig, call[r].unix)]
    /\ call' = [call EXCEPT ![r].pc = "transport"]
    /\ UNCHANGED <<transport, newRet, clock, clients, op>>

\* Delegate that tries the transport a second time when it fails.
Delegate_Retry(r, rsp, err, consumed) ==
    /\ ~Panicked
    /\ call[r].pc = "transport"
    /\ (rsp.nil /\ err # NoErr) \/ (~rsp.nil /\ err = NoErr /\ consumed)
    /\ call' = [call EXCEPT
                  ![r].sent = Snapshot(req[r]),
                  ![r].calls = IF err # NoErr THEN @ + 2 ELSE @ + 1,
                  ![r].rsp = rsp,
                  ![r].err = err,
                  ![r].pc = "return"]
    /\ req' = [req EXCEPT ![r].Body =
                 IF consumed /\ ~@.nil THEN Drained(@) ELSE @]
    /\ UNCHANGED <<transport, newRet, clock, clients, op>>

\* rsp, err := http.DefaultTransport.RoundTrip(req): the underlying
\* transport is handed the request and answers with a response or an
\* error.  It reads the body when it sends it; when it fails it may not
\* have read it.
Delegate(r, rsp, err, consumed) ==
    /\ ~Panicked
    /\ call[r].pc = "transport"
    /\ (rsp.nil /\ err # NoErr) \/ (~rsp.nil /\ err = NoErr /\ consumed)
    /\ call' = [call EXCEPT
                  ![r].sent = Snapshot(req[r]),
                  ![r].calls = @ + 1,
                  ![r].rsp = rsp,
                  ![r].err = err,
                  ![r].pc = "return"]
    /\ req' = [req EXCEPT ![r].Body =
                 IF consumed /\ ~@.nil THEN Drained(@) ELSE @]
    /\ UNCHANGED <<transport, newRet, clock, clients, op>>

\* if err != nil { return nil, fmt.Errorf("error making request: %w", err) }
\* return rsp, nil
Return(r) ==
    /\ ~Panicked
    /\ call[r].pc = "return"
    /\ call' = [call EXCEPT
                  ![r].retRsp = IF call[r].err # NoErr THEN NoRsp
                                ELSE call[r].rsp,
                  ![r].retErr = IF call[r].err # NoErr
                                THEN WrapTransportError(call[r].err)
                                ELSE NoErr,
                  ![r].pc = "done"]
    /\ UNCHANGED <<transport, newRet, req, clock, clients, op>>

\* One caller that works on one request object at a time, with every input.
Next ==
    \/ Tick
    \/ \E c \in Credentials : NewClient(c[1], c[2])
    \/ \E method \in Methods, path \in Paths, rawQuery \in RawQueries,
          header \in InitHeaders, body \in Bodies :
            NewRequest("r1", method, path, rawQuery, header, body)
    \/ RoundTrip("r1")
    \/ BufferBody("r1")
    \/ Rpath("r1")
    \/ Unix("r1")
    \/ Sign("r1")
    \/ AddHeaders("r1")
    \/ \E rsp \in Responses \cup {NoRsp},
          err \in TransportErrors \cup {NoErr}, consumed \in BOOLEAN :
            Delegate("r1", rsp, err, consumed)
    \/ Return("r1")

Spec == Init /\ [][Next]_vars

\* Several goroutines, each sending its own request object once through
\* the transport that is installed, in any interleaving.
ConcurrentNext ==
    \/ Tick
    \/ \E c \in ValidCredentials : NewClient(c[1], c[2])
    \/ \E r \in ReqIds, method \in Methods, path \in Paths,
          rawQuery \in RawQueries, body \in {NilBody, Stream("{order}", FALSE)} :
            NewRequest(r, method, path, rawQuery, JSONHeader, body)
    \/ \E r \in ReqIds : call[r].passes = 0 /\ RoundTrip(r)
    \/ \E r \in ReqIds : BufferBody(r)
    \/ \E r \in ReqIds : Rpath(r)
    \/ \E r \in ReqIds : Unix(r)
    \/ \E r \in ReqIds : Sign(r)
    \/ \E r \in ReqIds : AddHeaders(r)
    \/ \E r \in ReqIds, rsp \in {OKResponse, NoRsp},
          err \in TransportErrors \cup {NoErr} :
            Delegate(r, rsp, err, TRUE)
    \/ \E r \in ReqIds : Return(r)

ConcurrentSpec == Init /\ [][ConcurrentNext]_vars

----------------------------------------------------------------------------
(* Client.Accounts and Client.CreateOrder                                  *)

\* fmt.Errorf("%w: unexpected status code: %d, body: %s", ErrStatusNotOK, ..)
StatusError == Wrap("unexpected status code", ErrStatusNotOK)

\* The result type of a method: its zero value and its fields.
ZeroResult(kind) == IF kind = "Accounts" THEN ZeroAccounts ELSE ZeroOrder
ResultFields(kind) == IF kind = "Accounts" THEN AccountsFields ELSE OrderFields

\* client.Accounts(ctx) up to the call of Do: the GET request for
\* api/brokerage/accounts, without a body.
Accounts(r, c) ==
    /\ ~Panicked
    /\ c \in clients
    /\ op[r].pc = "none"
    /\ ~req[r].made
    /\ req' = [req EXCEPT ![r] =
                 [made |-> TRUE, Method |-> "GET",
                  Path |-> JoinPath(api, <<"brokerage", "accounts">>),
                  RawQuery |-> "", Header |-> EmptyHeader, Body |-> NilBody]]
    /\ op' = [op EXCEPT ![r] =
                [NoOp EXCEPT !.pc = "do", !.kind = "Accounts", !.client = c]]
    /\ UNCHANGED <<transport, newRet, call, clock, clients>>

\* client.CreateOrder(ctx, orderReq) up to the call of Do: the POST request
\* for api/brokerage/orders with the marshalled order as its body and the
\* Content-Type header set.
CreateOrder(r, c) ==
    /\ ~Panicked
    /\ c \in clients
    /\ op[r].pc = "none"
    /\ ~req[r].made
    /\ req' = [req EXCEPT ![r] =
                 [made |-> TRUE, Method |-> "POST",
                  Path |-> JoinPath(api, <<"brokerage", "orders">>),
                  RawQuery |-> "", Header |-> JSONHeader,
                  Body |-> Stream(MarshalOrderRequest, FALSE)]]
    /\ op' = [op EXCEPT ![r] =
                [NoOp EXCEPT !.pc = "do", !.kind = "CreateOrder",
                             !.client = c]]
    /\ UNCHANGED <<transport, newRet, call, clock, clients>>

\* client.httpClient.Do(req): the client is http.DefaultClient, which hands
\* the request to the transport it holds at this moment.
ClientDo(r) ==
    /\ ~Panicked
    /\ op[r].pc = "do"
    /\ call[r].pc = "idle"
    /\ transport.set
    /\ call' = [call EXCEPT ![r] =
          IF transport.rt.nil
             THEN [IdleCall EXCEPT !.pc = "panic"]
             ELSE [IdleCall EXCEPT
                     !.pc = "body",
                     !.passes = 1,
                     !.key = transport.rt.key,
                     !.secret = transport.rt.secret,
                     !.entry = Snapshot(req[r])]]
    /\ op' = [op EXCEPT ![r].pc = "wait"]
    /\ UNCHANGED <<transport, newRet, req, clock, clients>>

\* resp, err := Do(req); if err != nil { return nil, "failed to send
\* request: %w" }.  Otherwise the close of the body is deferred.
ClientSent(r) ==
    /\ ~Panicked
    /\ op[r].pc = "wait"
    /\ call[r].pc = "done"
    /\ op' = [op EXCEPT ![r] =
          IF call[r].retErr # NoErr
             THEN [@ EXCEPT !.result = NilResult,
                            !.err = Wrap("failed to send request",
                                         URLError(call[r].retErr)),
                            !.pc = "returned"]
             ELSE [@ EXCEPT !.resp = call[r].retRsp, !.pc = "status"]]
    /\ UNCHANGED <<transport, newRet, req, call, clock, clients>>

\* ClientStatus that lets every status code through to the decoder.
ClientStatus_Ignored(r) ==
    /\ ~Panicked
    /\ op[r].pc = "status"
    /\ op' = [op EXCEPT ![r].pc = "decode"]
    /\ UNCHANGED <<transport, newRet, req, call, clock, clients>>

\* if resp.StatusCode != http.StatusOK { return nil, ErrStatusNotOK... }
ClientStatus(r) ==
    /\ ~Panicked
    /\ op[r].pc = "status"
    /\ op' = [op EXCEPT ![r] =
          IF op[r].resp.StatusCode # 200
             THEN [@ EXCEPT !.result = NilResult, !.err = StatusError,
                            !.pc = "close"]
             ELSE [@ EXCEPT !.pc = "decode"]]
    /\ UNCHANGED <<transport, newRet, req, call, clock, clients>>

\* ClientDecode that returns the value it decoded into together with the
\* decoding error.
ClientDecode_KeepResult(r) ==
    LET d == Decode(op[r].resp.Body, ZeroResult(op[r].kind),
                    ResultFields(op[r].kind))
    IN
    /\ ~Panicked
    /\ op[r].pc = "decode"
    /\ op' = [op EXCEPT ![r] =
          IF d.err # NoErr
             THEN [@ EXCEPT !.decodes = @ + 1, !.result = Result(d.val),
                            !.err = Wrap("failed to decode response", d.err),
                            !.pc = "close"]
             ELSE [@ EXCEPT !.decodes = @ + 1, !.result = Result(d.val),
                            !.err = NoErr, !.pc = "close"]]
    /\ UNCHANGED <<transport, newRet, req, call, clock, clients>>

\* result := &T{}; if err := json.NewDecoder(resp.Body).Decode(result);
\* err != nil { return nil, "failed to decode response: %w" }
\* return result, nil
ClientDecode(r) ==
    LET d == Decode(op[r].resp.Body, ZeroResult(op[r].kind),
                    ResultFields(op[r].kind))
    IN
    /\ ~Panicked
    /\ op[r].pc = "decode"
    /\ op' = [op EXCEPT ![r] =
          IF d.err # NoErr
             THEN [@ EXCEPT !.decodes = @ + 1, !.result = NilResult,
                            !.err = Wrap("failed to decode response", d.err),
                            !.pc = "close"]
             ELSE [@ EXCEPT !.decodes = @ + 1, !.result = Result(d.val),
                            !.err = NoErr, !.pc = "close"]]
    /\ UNCHANGED <<transport, newRet, req, call, clock, clients>>

\* The deferred function runs when the method returns:
\* if err := resp.Body.Close(); err != nil { panic(err) }
ClientClose(r) ==
    /\ ~Panicked
    /\ op[r].pc = "close"
    /\ op' = [op EXCEPT ![r].closed = TRUE,
                        ![r].pc = IF op[r].resp.closeErr THEN "panic"
                                  ELSE "returned"]
    /\ UNCHANGED <<transport, newRet, req, call, clock, clients>>

\* One caller that makes clients, also with bad credentials, and calls one
\* method of one of the clients it got.
ClientNext ==
    \/ Tick
    \/ \E c \in Credentials : NewClient(c[1], c[2])
    \/ \E c \in clients : Accounts("r1", c)
    \/ \E c \in clients : CreateOrder("r1", c)
    \/ ClientDo("r1")
    \/ BufferBody("r1")
    \/ Rpath("r1")
    \/ Unix("r1")
    \/ Sign("r1")
    \/ AddHeaders("r1")
    \/ \E rsp \in APIResponses \cup {NoRsp},
          err \in TransportErrors \cup {NoErr}, consumed \in BOOLEAN :
            Delegate("r1", rsp, err, consumed)
    \/ Return("r1")
    \/ ClientSent("r1")
    \/ ClientStatus("r1")
    \/ ClientDecode("r1")
    \/ ClientClose("r1")

ClientSpec == Init /\ [][ClientNext]_vars

----------------------------------------------------------------------------
(* Properties                                                              *)

Last(seq) == seq[Len(seq)]

\* newRoundTrip has passed the named step of the send it is running.
Buffered(r) ==
    call[r].pc \in {"path", "time", "sign", "headers", "transport",
                    "return", "done"}
PathBuilt(r) ==
    call[r].pc \in {"time", "sign", "headers", "transport", "return", "done"}
Signed(r) == call[r].pc \in {"headers", "transport", "return", "done"}
Headerized(r) == call[r].pc \in {"transport", "return", "done"}
Delegated(r) == call[r].pc \in {"return", "done"}
Returned(r) == call[r].pc = "done"

\* The request entered the send without any of the three auth headers.
CleanEntry(r) == \A n \in AuthHeaderNames : call[r].entry.Header[n] = <<>>

\* C1: construction succeeds exactly when key and secret are both non-empty;
\* with either empty NewClient returns no client and an error that is
\* "invalid auth arguments", and newRoundTripper gave no round tripper; with
\* both non-empty it returns a client and no error, whatever the values are,
\* and the round tripper holds exactly that key and secret.
C1_Construction ==
    newRet.called =>
        IF newRet.key = "" \/ newRet.secret = ""
           THEN /\ ~newRet.client
                /\ newRet.err # NoErr
                /\ ErrorsIs(newRet.err, errInvalidRoundTripArgs)
                /\ transport.rt.nil
           ELSE /\ newRet.client
                /\ newRet.err = NoErr
                /\ ~transport.rt.nil
                /\ transport.rt.key = newRet.key
                /\ transport.rt.secret = newRet.secret

C1_Witness ==
    /\ newRet.called
    /\ newRet.key = "key1"
    /\ newRet.secret = ""
    /\ ~newRet.client
    /\ newRet.err = <<"failed to create client", "invalid auth arguments">>

\* C2: in every send the clock is read once, and the one decimal string made
\* from that reading is the first part of the signed message and the value
\* added to cb-access-timestamp, on the request and on what the underlying
\* transport is handed, however sends interleave and the clock advances.
C2_OneTimestamp ==
    \A r \in ReqIds :
        /\ call[r].pc \in {"body", "path", "time"} => call[r].reads = 0
        /\ call[r].pc \in {"sign", "headers"} =>
              /\ call[r].reads = 1
              /\ call[r].unix = FormatInt(call[r].now)
        /\ Headerized(r) =>
              /\ call[r].reads = 1
              /\ call[r].unix = FormatInt(call[r].now)
              /\ call[r].parts[1] = call[r].unix
              /\ Last(req[r].Header["Cb-Access-Timestamp"]) = call[r].parts[1]
        /\ Delegated(r) =>
              Last(call[r].sent.Header["Cb-Access-Timestamp"])
                 = call[r].parts[1]

\* Two sends overlapped, the clock advanced between their readings and after
\* the later one, and each delivered its own reading.
C2_Witness ==
    /\ call["r1"].pc = "done"
    /\ call["r2"].pc = "transport"
    /\ call["r2"].now = StartClock
    /\ call["r1"].now = StartClock + 1
    /\ call["r1"].sent.Header["Cb-Access-Timestamp"] = <<"1700000000">>
    /\ req["r2"].Header["Cb-Access-Timestamp"] = <<"1699999999">>
    /\ call["r1"].parts[1] = "1700000000"

\* C3: a request that enters the send with a non-empty body keeps a body that
\* reads, from its start, as the same bytes: after buffering, the request's
\* body yields the bytes it yielded on entry, these are the bytes that are
\* signed, and the underlying transport is handed a body yielding them.
C3_BodyRestored ==
    \A r \in ReqIds :
        call[r].entry.body # "" =>
            /\ Buffered(r) => call[r].body = call[r].entry.body
            /\ Buffered(r) /\ ~Delegated(r) =>
                  /\ ~req[r].Body.nil
                  /\ ReadAll(req[r].Body).data = call[r].entry.body
            /\ Signed(r) => call[r].parts[4] = call[r].entry.body
            /\ Delegated(r) =>
                  /\ ~call[r].sent.bodyNil
                  /\ call[r].sent.body = call[r].entry.body
                  /\ call[r].sent.body = call[r].parts[4]

C3_Witness ==
    /\ Returned("r1")
    /\ call["r1"].entry.body = "{order}"
    /\ call["r1"].sent.body = "{order}"
    /\ call["r1"].parts[4] = "{order}"

\* C4: a send on a request that entered without the three auth headers hands
\* the underlying transport the header it entered with plus exactly one
\* value for each of cb-access-key (the key), cb-access-sign (this send's
\* signature) and cb-access-timestamp (this send's timestamp); every other
\* header, the method and the URL are as on entry; the wrapper's key and
\* secret are non-empty; nothing is handed over before the headers are set.
C4_ThreeHeaders ==
    \A r \in ReqIds :
        /\ call[r].pc \notin {"idle", "panic"} =>
              call[r].key # "" /\ call[r].secret # ""
        /\ ~Delegated(r) => call[r].sent = NoSent
        /\ Delegated(r) /\ CleanEntry(r) =>
              /\ call[r].sent.Header =
                    [call[r].entry.Header EXCEPT
                        !["Cb-Access-Key"] = <<call[r].key>>,
                        !["Cb-Access-Sign"] = <<call[r].sig>>,
                        !["Cb-Access-Timestamp"] = <<call[r].unix>>]
              /\ call[r].sent.Method = call[r].entry.Method
              /\ call[r].sent.Path = call[r].entry.Path
              /\ call[r].sent.RawQuery = call[r].entry.RawQuery

C4_Witness ==
    /\ Returned("r1")
    /\ CleanEntry("r1")
    /\ call["r1"].sent.Header["Cb-Access-Key"] = <<"key2">>
    /\ call["r1"].sent.Header["Cb-Access-Timestamp"] = <<"1700000000">>
    /\ call["r1"].sent.Header["Content-Type"] = <<"application/json">>

\* C5: the signed message is the timestamp, the method, the path with query
\* and the body bytes, in this order, with nothing between them, and the
\* signature is the keyed hash of that message under the secret: the key is
\* neither in the message nor the hash key.
C5_SignedMessage ==
    \A r \in ReqIds :
        Signed(r) =>
            /\ call[r].msg =
                  call[r].unix \o req[r].Method \o call[r].rpath
                     \o call[r].body
            /\ call[r].sig = HexEncode(HMACSHA256(call[r].secret, call[r].msg))
            /\ call[r].secret # call[r].key
            /\ Delegated(r) =>
                  /\ Last(call[r].sent.Header["Cb-Access-Sign"]) = call[r].sig
                  /\ call[r].msg =
                        Last(call[r].sent.Header["Cb-Access-Timestamp"])
                           \o call[r].sent.Method
                           \o call[r].rpath
                           \o call[r].sent.body

C5_Witness ==
    /\ Returned("r1")
    /\ call["r1"].msg =
          "1699999999POST/api/v3/brokerage/accounts?limit=10{order}"
    /\ call["r1"].sig =
          [hex |-> [key |-> "secret1",
                    msg |-> "1699999999POST/api/v3/brokerage/accounts?limit=10{order}"]]

\* C6: the path that is signed is the request path when the raw query is
\* empty, and path, "?" and the raw query otherwise; so a request with a
\* query signs another message than the same request without it.
C6_PathWithQuery ==
    \A r \in ReqIds :
        /\ PathBuilt(r) /\ req[r].RawQuery = "" => call[r].rpath = req[r].Path
        /\ PathBuilt(r) /\ req[r].RawQuery # "" =>
              /\ call[r].rpath = req[r].Path \o "?" \o req[r].RawQuery
              /\ call[r].rpath # req[r].Path
        /\ Signed(r) =>
              /\ call[r].parts[3] = call[r].rpath
              /\ req[r].RawQuery # "" =>
                    call[r].msg #
                       call[r].unix \o req[r].Method \o req[r].Path
                          \o call[r].body

C6_Witness ==
    /\ Signed("r1")
    /\ req["r1"].RawQuery = "limit=10"
    /\ call["r1"].rpath = "/api/v3/brokerage/accounts?limit=10"
    /\ call["r1"].parts[3] = "/api/v3/brokerage/accounts?limit=10"

C6_WitnessNoQuery ==
    /\ Signed("r1")
    /\ req["r1"].RawQuery = ""
    /\ call["r1"].rpath = "/api/v3/brokerage/accounts"

\* C7: a request without a body is signed as one with an empty body: in both
\* cases the signature is the one of timestamp, method and path alone.
\* Without a body the send goes on through header injection to one call of
\* the transport, fails only if the transport fails, and the request's body
\* is absent throughout.
C7_AbsentBody ==
    \A r \in ReqIds :
        /\ Signed(r) /\ (call[r].entry.bodyNil \/ call[r].entry.body = "") =>
              call[r].sig =
                 HexEncode(HMACSHA256(call[r].secret,
                     call[r].unix \o req[r].Method \o call[r].rpath))
        /\ call[r].entry.bodyNil /\ call[r].pc \notin {"idle", "panic"} =>
              /\ req[r].Body.nil
              /\ call[r].body = ""
              /\ Delegated(r) =>
                    /\ call[r].sent.bodyNil
                    /\ call[r].calls = 1
                    /\ \A n \in AuthHeaderNames :
                          Len(call[r].sent.Header[n])
                             = Len(call[r].entry.Header[n]) + 1
              /\ Returned(r) =>
                    (call[r].retErr # NoErr <=> call[r].err # NoErr)

C7_Witness ==
    /\ Returned("r1")
    /\ call["r1"].entry.bodyNil
    /\ call["r1"].retErr = NoErr
    /\ call["r1"].retRsp = OKResponse
    /\ call["r1"].msg = "1699999999GET/api/v3/brokerage/accounts"

\* C8: a send calls the underlying transport once, whether the transport
\* answers or fails: never before the headers are set, never a second time,
\* and no send returns without having called it.
C8_OneAttempt ==
    \A r \in ReqIds :
        /\ call[r].pc \in {"body", "path", "time", "sign", "headers",
                           "transport"} => call[r].calls = 0
        /\ Delegated(r) => call[r].calls = 1

C8_Witness ==
    /\ Returned("r1")
    /\ call["r1"].err # NoErr
    /\ call["r1"].retErr # NoErr
    /\ call["r1"].calls = 1

\* C9: send returns what the transport returned: its response and no error,
\* or no response and the transport's error wrapped as "error making
\* request"; never both and never neither.
C9_Outcome ==
    \A r \in ReqIds :
        Returned(r) =>
            /\ call[r].err = NoErr =>
                  /\ call[r].retRsp = call[r].rsp
                  /\ ~call[r].retRsp.nil
                  /\ call[r].retErr = NoErr
            /\ call[r].err # NoErr =>
                  /\ call[r].retRsp = NoRsp
                  /\ call[r].retErr[1] = "error making request"
                  /\ ErrorsIs(call[r].retErr, call[r].err)
            /\ call[r].retRsp.nil <=> call[r].retErr # NoErr

C9_Witness ==
    /\ Returned("r1")
    /\ call["r1"].err = <<"dial tcp: timeout">>
    /\ call["r1"].retRsp = NoRsp
    /\ call["r1"].retErr = <<"error making request", "dial tcp: timeout">>

C9_WitnessResponse ==
    /\ Returned("r1")
    /\ call["r1"].retRsp = [nil |-> FALSE, StatusCode |-> 401]
    /\ call["r1"].retErr = NoErr

\* What a send on r alone hands the transport, from r's own inputs.
OwnSignature(r) ==
    HexEncode(HMACSHA256(call[r].secret,
        FormatInt(call[r].now) \o call[r].entry.Method
           \o RequestPath(call[r].entry.Path, call[r].entry.RawQuery)
           \o call[r].entry.body))

C10_OwnRequest ==
    \A r \in ReqIds :
        Delegated(r) =>
            /\ call[r].sent.bodyNil = call[r].entry.bodyNil
            /\ call[r].sent.body = call[r].entry.body
            /\ call[r].sent.Header["Cb-Access-Sign"] = <<OwnSignature(r)>>
            /\ call[r].sent.Header["Cb-Access-Timestamp"]
                  = <<FormatInt(call[r].now)>>
            /\ call[r].sent.Header["Cb-Access-Key"] = <<call[r].key>>

\* A step of one send leaves the request and the frame of every other send
\* as they were.
C10_Frame ==
    \A r, q \in ReqIds :
        (r # q /\ (call'[r] # call[r] \/ req'[r] # req[r]))
            => (call'[q] = call[q] /\ req'[q] = req[q])

\* C10: with sends on distinct request objects interleaved in any way, each
\* request reaches the underlying transport with the body it entered with
\* and with the signature and timestamp of its own method, path, query, body
\* and clock reading, and no step of a send changes the request or the
\* frame of another send.
C10_Concurrent == []C10_OwnRequest /\ [][C10_Frame]_vars

\* Both sends are under way at once, on requests that differ in method,
\* query and body, with different clock readings; one has been delivered.
C10_Witness ==
    /\ call["r1"].pc = "return"
    /\ call["r2"].pc = "headers"
    /\ call["r2"].now < call["r1"].now
    /\ call["r1"].entry.body # call["r2"].entry.body
    /\ call["r1"].entry.Method # call["r2"].entry.Method
    /\ call["r1"].entry.RawQuery # call["r2"].entry.RawQuery
    /\ call["r1"].key # call["r2"].key

\* The value a send computes for an auth header.
AuthValue(r, n) ==
    CASE n = "Cb-Access-Key" -> call[r].key
      [] n = "Cb-Access-Sign" -> call[r].sig
      [] n = "Cb-Access-Timestamp" -> call[r].unix

\* The number of sends of the request object that have set their headers.
HeaderPasses(r) ==
    IF call[r].pc \in {"body", "path", "time", "sign", "headers"}
       THEN call[r].passes - 1
       ELSE call[r].passes

\* C14: header injection is additive.  Once a send has set its headers,
\* each of cb-access-key, cb-access-sign and cb-access-timestamp holds the
\* values it had when the request entered the send, in their order,
\* followed by the one value this send computed; so a request object that
\* was built with header h0 and has been through n sends holds, for each of
\* the three headers, the values of h0 followed by n more, the last one
\* being the value of the latest send.
C14_Additive ==
    \A r \in ReqIds :
        req[r].made =>
            \E h0 \in InitHeaders :
                \A n \in AuthHeaderNames :
                    /\ Len(req[r].Header[n]) = Len(h0[n]) + HeaderPasses(r)
                    /\ SubSeq(req[r].Header[n], 1, Len(h0[n])) = h0[n]
                    /\ Headerized(r) =>
                          /\ req[r].Header[n] =
                                Append(call[r].entry.Header[n],
                                       AuthValue(r, n))
                          /\ Last(req[r].Header[n]) = AuthValue(r, n)
                    /\ Delegated(r) =>
                          call[r].sent.Header[n] = req[r].Header[n]

\* A request with pre-set auth headers has been through two sends, under
\* two different transports.
C14_Witness ==
    /\ Returned("r1")
    /\ call["r1"].passes = 2
    /\ req["r1"].Header["Cb-Access-Key"] = <<"key0", "key1", "key2">>
    /\ Len(req["r1"].Header["Cb-Access-Sign"]) = 3
    /\ req["r1"].Header["Cb-Access-Timestamp"] =
          <<"1", "1699999999", "1700000000">>

\* A request built without auth headers has been through two sends: each
\* header holds two values.
C14_WitnessClean ==
    /\ Returned("r1")
    /\ call["r1"].passes = 2
    /\ \A n \in AuthHeaderNames : Len(req["r1"].Header[n]) = 2

\* C11: the credentials of a client are fixed for its lifetime.  Every
\* request that a method of a Client sends reaches the underlying transport
\* with the key the Client was made with as its one cb-access-key value and
\* with a signature computed under the secret the Client was made with,
\* whatever NewClient calls happen before, during or after the request.
C11_OwnCredentials ==
    \A r \in ReqIds :
        op[r].pc # "none" /\ Delegated(r) =>
            /\ call[r].sent.Header["Cb-Access-Key"] = <<op[r].client.key>>
            /\ call[r].sig = Signature(op[r].client.secret, call[r].msg)
            /\ Last(call[r].sent.Header["Cb-Access-Sign"]) = call[r].sig

\* C15: a NewClient call that fails leaves the default HTTP client as it
\* was: in every step that is a NewClient call with an empty key or an
\* empty secret, http.DefaultClient.Transport is after the call what it was
\* before it; and no request through the default client panics.
C15_FailedNewClient ==
    [][ /\ \A c \in Credentials :
              /\ newRoundTripper(c[1], c[2]).err # NoErr
              /\ NewClient(c[1], c[2])
              => transport' = transport
        /\ ~Panicked' ]_vars

\* The method has a response from the API in hand.
Answered(r) ==
    /\ op[r].pc \in {"status", "decode", "close", "returned", "panic"}
    /\ ~op[r].resp.nil

\* The method is over: it has returned, or its deferred close has panicked.
Ended(r) == op[r].pc \in {"returned", "panic"}

\* C13 as stated: whenever the API answers with a status code other than
\* 200, the method returns a nil result and an error that wraps
\* ErrStatusNotOK, without a decode of the body, and with the body closed.
C13_AlwaysReturns ==
    \A r \in ReqIds :
        Answered(r) /\ op[r].resp.StatusCode # 200 /\ Ended(r) =>
            /\ op[r].pc = "returned"
            /\ op[r].result = NilResult
            /\ ErrorsIs(op[r].err, ErrStatusNotOK)
            /\ op[r].decodes = 0
            /\ op[r].closed

\* C13, amended: whenever the API answers Accounts or CreateOrder with a
\* status code other than 200, the method never decodes the body, and what
\* it is about to return is a nil result and an error that wraps
\* ErrStatusNotOK; the deferred close of the body runs before the method
\* is over, on this path as on the success path; if the close succeeds the
\* method returns that result and error, and if the close returns an error
\* the method panics instead of returning.
C13_StatusNotOK ==
    \A r \in ReqIds :
        /\ Answered(r) /\ op[r].resp.StatusCode # 200 =>
              /\ op[r].decodes = 0
              /\ op[r].pc # "decode"
              /\ op[r].pc \in {"close", "returned", "panic"} =>
                    /\ op[r].result = NilResult
                    /\ ErrorsIs(op[r].err, ErrStatusNotOK)
        /\ Answered(r) /\ Ended(r) =>
              /\ op[r].closed
              /\ op[r].pc = "returned" <=> ~op[r].resp.closeErr
        /\ Answered(r) /\ ~Ended(r) => ~op[r].closed

\* CreateOrder was answered 401 with a body that would decode, and has
\* returned.
C13_Witness ==
    /\ op["r1"].pc = "returned"
    /\ op["r1"].kind = "CreateOrder"
    /\ op["r1"].resp.StatusCode = 401
    /\ op["r1"].resp.Body = TypedObject
    /\ op["r1"].closed
    /\ op["r1"].err = StatusError

\* Accounts was answered 401 and the close of the body failed.
C13_WitnessPanic ==
    /\ op["r1"].pc = "panic"
    /\ op["r1"].kind = "Accounts"
    /\ op["r1"].resp.StatusCode = 401

\* The positions of the member names of a JSON object text.
MemberNames(b) ==
    {i \in 1..(Len(b) - 2) : b[i].kind = "string" /\ b[i + 1].kind = ":"}

\* The JSON objects all of whose members that name a field of the result
\* type hold a value of the field's type, or null.
FittingObjects(kind) ==
    {b \in JSONObjects :
        \A i \in MemberNames(b) :
            b[i].s \in DOMAIN ResultFields(kind) =>
                TokType(b[i + 2]) \in {ResultFields(kind)[b[i].s], "null"}}

\* C12 as stated: a method that returns after a response with status 200
\* returns a nil result and an error wrapping io.EOF when the body is
\* empty, and a non-nil decoded result and a nil error when the body is a
\* JSON object (the zero value for {}); never a non-nil result together
\* with a non-nil error.
C12_AnyObject ==
    \A r \in ReqIds :
        Answered(r) /\ op[r].resp.StatusCode = 200 /\ op[r].pc = "returned" =>
            /\ op[r].resp.Body = EmptyText =>
                  op[r].result = NilResult /\ ErrorsIs(op[r].err, ioEOF)
            /\ op[r].resp.Body \in JSONObjects =>
                  ~op[r].result.nil /\ op[r].err = NoErr
            /\ op[r].resp.Body = EmptyObject =>
                  op[r].result = Result(ZeroResult(op[r].kind))
            /\ ~(~op[r].result.nil /\ op[r].err # NoErr)

\* C12, amended: a method that returns after a response with status 200
\* has decoded the body once and returns: for an empty body, a nil result
\* and an error wrapping io.EOF; for a JSON object whose members fit the
\* types of the result's fields, a non-nil result holding the members'
\* values and a nil error (the zero value for {}); for a JSON object with a
\* member of another type than its field, a nil result and the decoder's
\* type error.  No method returns a non-nil result together with a non-nil
\* error.  The method returns exactly when the close of the body succeeds.
C12_Decoded ==
    \A r \in ReqIds :
        /\ Answered(r) /\ op[r].resp.StatusCode = 200
                       /\ op[r].pc = "returned" =>
            LET b == op[r].resp.Body
                fields == ResultFields(op[r].kind)
            IN
            /\ op[r].decodes = 1
            /\ b = EmptyText =>
                  op[r].result = NilResult /\ ErrorsIs(op[r].err, ioEOF)
            /\ b \in FittingObjects(op[r].kind) =>
                  /\ ~op[r].result.nil
                  /\ op[r].err = NoErr
                  /\ \A i \in MemberNames(b) :
                        b[i].s \in DOMAIN fields /\ b[i + 2].kind # "null" =>
                            op[r].result.val[b[i].s] = TokValue(b[i + 2])
            /\ b = EmptyObject =>
                  op[r].result = Result(ZeroResult(op[r].kind))
            /\ b \in JSONObjects \ FittingObjects(op[r].kind) =>
                  /\ op[r].result = NilResult
                  /\ ErrorsIs(op[r].err, UnmarshalTypeError)
        /\ Answered(r) /\ op[r].resp.StatusCode = 200 /\ Ended(r) =>
              (op[r].pc = "returned" <=> ~op[r].resp.closeErr)
        /\ op[r].pc \in {"close", "returned"} =>
              (op[r].result.nil <=> op[r].err # NoErr)

\* Accounts was answered 200 with an object of fitting members and has
\* returned the decoded value.
C12_Witness ==
    /\ op["r1"].pc = "returned"
    /\ op["r1"].kind = "Accounts"
    /\ op["r1"].resp.StatusCode = 200
    /\ op["r1"].resp.Body = TypedObject
    /\ op["r1"].result =
          Result([has_next |-> TRUE, cursor |-> "789100", size |-> 1])
    /\ op["r1"].err = NoErr

\* CreateOrder was answered 200 with an empty body.
C12_WitnessEmpty ==
    /\ op["r1"].pc = "returned"
    /\ op["r1"].kind = "CreateOrder"
    /\ op["r1"].resp.StatusCode = 200
    /\ op["r1"].resp.Body = EmptyText
    /\ op["r1"].err = Wrap("failed to decode response", ioEOF)

\* CreateOrder was answered 200 with {"size": "1", "success": "yes"}.
C12_WitnessMistyped ==
    /\ op["r1"].pc = "returned"
    /\ op["r1"].kind = "CreateOrder"
    /\ op["r1"].resp.StatusCode = 200
    /\ op["r1"].resp.Body = MistypedObject
    /\ op["r1"].result = NilResult

============================================================================
